---- MODULE Spec2Model ----
(***************************************************************************)
(* Prep_portal_backend: the conversation proxy (POST /api/ask, index.js)   *)
(* and the auth controller (register / login / getMe, AuthController.js    *)
(* behind Routes/AuthRouter.js).                                           *)
(*                                                                         *)
(* Text is modelled as a sequence of words, so that String.includes and    *)
(* template literals are computed rather than assumed.  A JavaScript value *)
(* that may be undefined is a sequence of length at most one: None is      *)
(* undefined, Some(x) is x.                                                *)
(***************************************************************************)
EXTENDS Integers, Sequences, FiniteSets, TLC

VARIABLES
    apiKey,      \* index.js:14  process.env.GEMINI_API_KEY is set
    ctorThrew,   \* index.js:22-29  the client construction threw at startup
    model,       \* index.js:15  the model handle is defined
    reqs,        \* POST /api/ask requests in flight, one record per request slot
    thrown,      \* the error raised inside the try block of /api/ask (catch study)
    caught,      \* the response the catch block produced for thrown
    chatHistoryIn, \* req.body.chatHistory (reshape study)
    startChatArg,  \* the history handed to model.startChat
    jwtSecret,   \* process.env.JWT_SECRET is set
    users,       \* the User collection of the credential store
    nextId,      \* the next identifier the store hands out
    tokens,      \* the tokens clients have received
    meReq,       \* a GET /api/auth/me request between protect and getMe
    last,        \* the last response of the auth routes, with what produced it
    loginFail,   \* the last login failure seen for each cause
    registered   \* what each successful registration asked for and received

askVars == <<apiKey, ctorThrew, model, reqs>>
catchVars == <<thrown, caught>>
reshapeVars == <<chatHistoryIn, startChatArg>>
authVars == <<jwtSecret, users, nextId, tokens, meReq, last, loginFail, registered>>

vars == <<askVars, catchVars, reshapeVars, authVars>>

-----------------------------------------------------------------------------
(* Bounds *)

MaxReq == 2        \* request slots of /api/ask in flight at once
MaxHist == 3       \* longest chatHistory in the reshape study
MaxUsers == 2      \* identifiers the credential store hands out

-----------------------------------------------------------------------------
(* JavaScript values *)

None == <<>>
Some(x) == <<x>>

\* String.prototype.includes on word sequences
Includes(hay, needle) ==
    \E i \in 1..(Len(hay) - Len(needle) + 1) :
        SubSeq(hay, i, i + Len(needle) - 1) = needle

\* truthiness of an optional string (undefined and "" are falsy)
TruthyText(v) == v # None /\ v[1] # <<>>

\* truthiness of an optional number (undefined and 0 are falsy)
TruthyNum(v) == v # None /\ v[1] # 0

-----------------------------------------------------------------------------
(* Startup: index.js:14-30 *)

Startup_assignOnThrow(key, threw) == key

\* the model handle is assigned iff the key is present and construction succeeds
Startup(key, threw) == key /\ ~threw

-----------------------------------------------------------------------------
(* History reshaping: index.js:62-65 *)

ClientRoles == {"user", "bot", "system"}
TurnTexts == {"hi", "hello"}
Turns == [role : ClientRoles, message : TurnTexts]

GeminiRole_identity(role) == role

\* role: msg.role === 'bot' ? 'model' : msg.role
GeminiRole(role) == IF role = "bot" THEN "model" ELSE role

\* msg => ({ role: ..., parts: [{ text: msg.message }] })
GeminiTurn(msg) == [role |-> GeminiRole(msg.role), parts |-> <<[text |-> msg.message]>>]

RECURSIVE MapTurns(_)
MapTurns(items) ==
    IF items = <<>> THEN <<>>
    ELSE <<GeminiTurn(Head(items))>> \o MapTurns(Tail(items))

\* chatHistory is [kind, items]: kind "absent" (undefined / falsy), "array", or
\* "other" (a truthy non-array, on which .map is not a function)
AbsentHistory == [kind |-> "absent", items |-> <<>>]
OtherHistory == [kind |-> "other", items |-> <<>>]
ArrayHistory(items) == [kind |-> "array", items |-> items]

\* (chatHistory || []).map(...)
geminiFormattedHistory(chatHistory) ==
    IF chatHistory.kind = "absent" THEN <<>> ELSE MapTurns(chatHistory.items)

-----------------------------------------------------------------------------
(* Responses of /api/ask: res.status(s).json({ key: value }) *)

Res(status, key, value) == [status |-> status, key |-> key, value |-> value]

MsgNotConfigured ==
    <<"Gemini", "service", "is", "unavailable", "due", "to", "a", "configuration",
      "error.", "Please", "check", "server", "logs.">>
MsgQuestionRequired == <<"Question", "is", "required">>
MsgInvalidKey ==
    <<"Invalid", "API", "Key", "or", "insufficient", "permissions.", "Please", "check",
      "your", ".env", "file", "and", "Google", "Cloud", "Console.">>
MsgQuotaExceeded ==
    <<"API", "Quota", "exceeded.", "Please", "check", "your", "Google", "Cloud",
      "Console.">>
PrefixCommunicate == <<"Failed", "to", "communicate", "with", "Gemini", "service:">>
PrefixGetAnswer == <<"Failed", "to", "get", "answer", "from", "Gemini:">>
MsgInternal == <<"Internal", "server", "error.">>

-----------------------------------------------------------------------------
(* Upstream failures: an error object with optional message and status *)

NeedleApiKey == <<"API", "key", "not", "valid">>
NeedleQuota == <<"quota">>
NeedleFetch == <<"[GoogleGenerativeAI", "Error]:", "Error", "fetching", "from">>

ErrMessages ==
    { None,
      Some(<<>>),
      Some(<<"boom">>),
      Some(<<"API", "key", "not", "valid.", "Please", "pass", "a", "valid", "API", "key.">>),
      Some(<<"You", "exceeded", "your", "current", "quota">>),
      Some(NeedleFetch \o <<"https://generativelanguage.googleapis.com">>),
      Some(<<"quota:">> \o NeedleApiKey),
      Some(NeedleFetch \o <<"host:", "quota", "exhausted">>) }

StatusForbidden == 403
StatusTooMany == 429
StatusServerError == 500

ErrStatuses ==
    { None, Some(400), Some(StatusForbidden), Some(StatusTooMany), Some(499),
      Some(StatusServerError), Some(503) }

Errors == [message : ErrMessages, status : ErrStatuses]

\* the TypeError raised by (chatHistory || []).map when chatHistory is no array
TypeErrorMap == [message |-> Some(<<"chatHistory.map", "is", "not", "a", "function">>),
                 status |-> None]

\* index.js:86
AuthStyle(error) ==
    \/ Includes(error.message[1], NeedleApiKey)
    \/ (TruthyNum(error.status) /\ error.status[1] = StatusForbidden)

\* index.js:88
QuotaStyle(error) ==
    \/ Includes(error.message[1], NeedleQuota)
    \/ (TruthyNum(error.status) /\ error.status[1] = StatusTooMany)

\* index.js:90
UnavailableStyle(error) ==
    \/ Includes(error.message[1], NeedleFetch)
    \/ (TruthyNum(error.status) /\ error.status[1] >= StatusServerError)

GlobalErrorHandler_echo(err) ==
    Res(500, "error", IF err.message = None THEN <<"undefined">> ELSE err.message[1])

\* index.js:103-106
GlobalErrorHandler(err) == Res(500, "error", MsgInternal)

Classified_quotaFirst(error) ==
    IF QuotaStyle(error) THEN Res(429, "error", MsgQuotaExceeded)
    ELSE IF AuthStyle(error) THEN Res(401, "error", MsgInvalidKey)
    ELSE IF UnavailableStyle(error)
         THEN Res(502, "error", PrefixCommunicate \o error.message[1])
    ELSE Res(500, "error", PrefixGetAnswer \o error.message[1])

\* index.js:86-94, reached only with a truthy error.message
Classified(error) ==
    IF AuthStyle(error) THEN Res(401, "error", MsgInvalidKey)
    ELSE IF QuotaStyle(error) THEN Res(429, "error", MsgQuotaExceeded)
    ELSE IF UnavailableStyle(error)
         THEN Res(502, "error", PrefixCommunicate \o error.message[1])
    ELSE Res(500, "error", PrefixGetAnswer \o error.message[1])

\* index.js:83-98: the catch block; next(error) runs the global error handler
CatchBlock(error) ==
    IF TruthyText(error.message) THEN Classified(error) ELSE GlobalErrorHandler(error)

-----------------------------------------------------------------------------
(* POST /api/ask: index.js:46-99 *)

Slots == 1..MaxReq

Questions == { None, Some(""), Some("q1"), Some("q2") }

AskHistories ==
    { AbsentHistory, OtherHistory, ArrayHistory(<<>>),
      ArrayHistory(<<[role |-> "user", message |-> "hi"]>>),
      ArrayHistory(<<[role |-> "user", message |-> "hi"],
                     [role |-> "bot", message |-> "hello"]>>) }

AskErrors ==
    { [message |-> Some(<<"boom">>), status |-> None],
      [message |-> None, status |-> Some(StatusTooMany)] }

Answers == { <<"fine">> }

IdleReq ==
    [pc |-> "idle", question |-> None, chatHistory |-> AbsentHistory,
     sent |-> <<>>, result |-> None, res |-> <<>>]

QuestionMissing_undefinedOnly(question) == question = None

\* index.js:54  !question
QuestionMissing(question) == question = None \/ question[1] = ""

\* res.status(..).json(..) ends the request
Respond(req, response) == [req EXCEPT !.pc = "done", !.res = Append(@, response)]

\* index.js:67-76  model.startChat({history}) and chat.sendMessage(question)
Submit(req) ==
    [req EXCEPT !.pc = "sendMessage",
                !.sent = Append(@, [history |-> geminiFormattedHistory(req.chatHistory),
                                    question |-> req.question[1]])]

\* index.js:47-76: the handler up to its first await
Handle(m, req) ==
    IF ~m THEN Respond(req, Res(503, "error", MsgNotConfigured))
    ELSE IF QuestionMissing(req.question)
         THEN Respond(req, Res(400, "error", MsgQuestionRequired))
    ELSE IF req.chatHistory.kind = "other"
         THEN Respond(req, CatchBlock(TypeErrorMap))
    ELSE Submit(req)

OnFailure_retry(req, error) ==
    IF Len(req.sent) < 2 THEN [req EXCEPT !.sent = Append(@, @[1])]
    ELSE Respond(req, CatchBlock(error))

\* index.js:83-98: a rejected await lands in the catch block, once
OnFailure(req, error) == Respond(req, CatchBlock(error))

AskReceive(r, question, chatHistory) ==
    /\ reqs[r].pc = "idle"
    /\ reqs' = [reqs EXCEPT ![r] =
                  Handle(model, [IdleReq EXCEPT !.question = question,
                                                !.chatHistory = chatHistory])]
    /\ UNCHANGED <<apiKey, ctorThrew, model, catchVars, reshapeVars, authVars>>

\* index.js:76-78: sendMessage resolves; the handler goes on to await response.text()
SendMessageResolves(r, text) ==
    /\ reqs[r].pc = "sendMessage"
    /\ reqs' = [reqs EXCEPT ![r].pc = "text", ![r].result = Some(text)]
    /\ UNCHANGED <<apiKey, ctorThrew, model, catchVars, reshapeVars, authVars>>

\* index.js:78-81: res.json({ answer: text })
TextResolves(r) ==
    /\ reqs[r].pc = "text"
    /\ reqs' = [reqs EXCEPT ![r] = Respond(reqs[r], Res(200, "answer", reqs[r].result[1]))]
    /\ UNCHANGED <<apiKey, ctorThrew, model, catchVars, reshapeVars, authVars>>

\* sendMessage rejects, or response.text() throws
UpstreamFails(r, error) ==
    /\ reqs[r].pc \in {"sendMessage", "text"}
    /\ reqs' = [reqs EXCEPT ![r] = OnFailure(reqs[r], error)]
    /\ UNCHANGED <<apiKey, ctorThrew, model, catchVars, reshapeVars, authVars>>

\* the connection is closed and the slot serves the next request
Recycle(r) ==
    /\ reqs[r].pc = "done"
    /\ reqs' = [reqs EXCEPT ![r] = IdleReq]
    /\ UNCHANGED <<apiKey, ctorThrew, model, catchVars, reshapeVars, authVars>>

\* the studies and the auth routes at rest
StudiesAtRest ==
    /\ thrown = None
    /\ caught = None
    /\ chatHistoryIn = None
    /\ startChatArg = None

AuthAtRest ==
    /\ users = {}
    /\ nextId = 1
    /\ tokens = {}
    /\ meReq = None
    /\ last = None
    /\ loginFail = [unknownEmail |-> None, wrongPassword |-> None]
    /\ registered = {}

Init ==
    /\ apiKey \in BOOLEAN
    /\ ctorThrew \in BOOLEAN
    /\ (ctorThrew => apiKey)
    /\ model = Startup(apiKey, ctorThrew)
    /\ reqs = [r \in Slots |-> IdleReq]
    /\ StudiesAtRest
    /\ jwtSecret = TRUE
    /\ AuthAtRest

Next ==
    \/ \E r \in Slots, q \in Questions, h \in AskHistories : AskReceive(r, q, h)
    \/ \E r \in Slots, t \in Answers : SendMessageResolves(r, t)
    \/ \E r \in Slots : TextResolves(r)
    \/ \E r \in Slots, e \in AskErrors : UpstreamFails(r, e)
    \/ \E r \in Slots : Recycle(r)

Spec == Init /\ [][Next]_vars

-----------------------------------------------------------------------------
(* The catch block on every failure signal *)

Throw(error) ==
    /\ thrown = None
    /\ thrown' = Some(error)
    /\ UNCHANGED <<askVars, caught, reshapeVars, authVars>>

Catch ==
    /\ thrown # None
    /\ caught = None
    /\ caught' = Some(CatchBlock(thrown[1]))
    /\ UNCHANGED <<askVars, thrown, reshapeVars, authVars>>

InitCatch ==
    /\ apiKey = TRUE
    /\ ctorThrew = FALSE
    /\ model = Startup(apiKey, ctorThrew)
    /\ reqs = [r \in Slots |-> IdleReq]
    /\ StudiesAtRest
    /\ jwtSecret = TRUE
    /\ AuthAtRest

NextCatch ==
    \/ \E e \in Errors : Throw(e)
    \/ Catch

SpecCatch == InitCatch /\ [][NextCatch]_vars

-----------------------------------------------------------------------------
(* The reshaping of every history up to MaxHist turns *)

SeqsUpTo(S, n) == UNION { [1..k -> S] : k \in 0..n }

Histories == { AbsentHistory } \cup { ArrayHistory(s) : s \in SeqsUpTo(Turns, MaxHist) }

ReceiveHistory(h) ==
    /\ chatHistoryIn = None
    /\ chatHistoryIn' = Some(h)
    /\ UNCHANGED <<askVars, catchVars, startChatArg, authVars>>

StartChat ==
    /\ chatHistoryIn # None
    /\ startChatArg = None
    /\ startChatArg' = Some(geminiFormattedHistory(chatHistoryIn[1]))
    /\ UNCHANGED <<askVars, catchVars, chatHistoryIn, authVars>>

InitReshape == InitCatch

NextReshape ==
    \/ \E h \in Histories : ReceiveHistory(h)
    \/ StartChat

SpecReshape == InitReshape /\ [][NextReshape]_vars

-----------------------------------------------------------------------------
(* Properties of the conversation proxy *)

Done(r) == reqs[r].pc = "done"
EmptyQuestion(r) == reqs[r].question = None \/ reqs[r].question[1] = ""
NotInitialised == ~apiKey \/ ctorThrew

\* C1 (as stated): a request whose question is empty or absent is answered 400, with
\* no upstream call, in every configuration of the server, model initialised or not.
C1_Original ==
    \A r \in Slots :
        (Done(r) /\ EmptyQuestion(r)) =>
            /\ reqs[r].sent = <<>>
            /\ Len(reqs[r].res) = 1
            /\ reqs[r].res[1].status = 400

\* C1 (amended): a request whose question is empty or absent never reaches the
\* upstream; it is answered 400 when the model is initialised and 503 when it is not.
C1_EmptyQuestion ==
    \A r \in Slots :
        EmptyQuestion(r) =>
            /\ reqs[r].sent = <<>>
            /\ Done(r) =>
                 /\ Len(reqs[r].res) = 1
                 /\ reqs[r].res[1].status = (IF model THEN 400 ELSE 503)
                 /\ (model => reqs[r].res[1] = Res(400, "error", MsgQuestionRequired))

C1_Witness ==
    \E r \in Slots :
        /\ model
        /\ Done(r)
        /\ reqs[r].question = Some("")
        /\ reqs[r].chatHistory.kind = "array"
        /\ reqs[r].res = <<Res(400, "error", MsgQuestionRequired)>>

\* C2: when the model was not initialised at startup (key absent, or construction
\* threw), every request is answered 503, none reaches the upstream, and the model
\* handle is never assigned later.
C2_NotConfigured ==
    /\ [](NotInitialised =>
            \A r \in Slots :
                /\ reqs[r].sent = <<>>
                /\ reqs[r].pc \in {"idle", "done"}
                /\ Done(r) => reqs[r].res = <<Res(503, "error", MsgNotConfigured)>>)
    /\ [][model' = model]_vars

C2_Witness ==
    /\ apiKey
    /\ ctorThrew
    /\ \E r \in Slots :
        /\ Done(r)
        /\ reqs[r].question = Some("q1")
        /\ reqs[r].res = <<Res(503, "error", MsgNotConfigured)>>
    /\ \E r \in Slots :
        /\ Done(r)
        /\ reqs[r].question = None
        /\ reqs[r].res[1].status = 503

\* C10: a request makes at most one upstream submission, never a second one after a
\* failure; it has exactly one response once it is done and none before; and what it
\* submits is its own question and its own history, whatever the other requests do.
C10_SingleAttempt ==
    \A r \in Slots :
        /\ Len(reqs[r].sent) <= 1
        /\ Len(reqs[r].res) = (IF Done(r) THEN 1 ELSE 0)
        /\ reqs[r].pc \in {"sendMessage", "text"} => Len(reqs[r].sent) = 1
        /\ reqs[r].sent # <<>> =>
             /\ reqs[r].sent[1].question = reqs[r].question[1]
             /\ Len(reqs[r].sent[1].history) = Len(reqs[r].chatHistory.items)
             /\ \A i \in 1..Len(reqs[r].chatHistory.items) :
                    reqs[r].sent[1].history[i].parts[1].text
                        = reqs[r].chatHistory.items[i].message

C10_Witness ==
    \E r1, r2 \in Slots :
        /\ r1 # r2
        /\ Done(r1)
        /\ Len(reqs[r1].sent) = 1
        /\ reqs[r1].res[1].status = 500
        /\ reqs[r2].pc = "text"
        /\ Len(reqs[r2].sent) = 1
        /\ reqs[r1].question # reqs[r2].question
        /\ reqs[r1].chatHistory # reqs[r2].chatHistory

-----------------------------------------------------------------------------
(* Properties of the catch block *)

MessageText(error) == IF error.message = None THEN <<>> ELSE error.message[1]
HasStatus(error, n) == error.status # None /\ error.status[1] = n

\* the failure signals of section 4.3 step 5: status code and/or message substring
SignalAuth(error) ==
    Includes(MessageText(error), NeedleApiKey) \/ HasStatus(error, StatusForbidden)
SignalQuota(error) ==
    Includes(MessageText(error), NeedleQuota) \/ HasStatus(error, StatusTooMany)
SignalUnavailable(error) ==
    \/ Includes(MessageText(error), NeedleFetch)
    \/ (error.status # None /\ error.status[1] >= StatusServerError)

\* "quota" in either capitalisation
MentionsQuota(text) == Includes(text, <<"quota">>) \/ Includes(text, <<"Quota">>)

\* C3 (as stated): whatever the combination of status and message, a quota signal
\* gives 429 with a body containing "quota", an authentication signal gives 401, an
\* unavailable signal gives 502, and a failure with none of them gives 500.
C3_Original ==
    caught # None =>
        LET e == thrown[1]
            r == caught[1]
        IN  /\ SignalQuota(e) => (r.status = 429 /\ MentionsQuota(r.value))
            /\ SignalAuth(e) => r.status = 401
            /\ SignalUnavailable(e) => r.status = 502
            /\ ~(SignalQuota(e) \/ SignalAuth(e) \/ SignalUnavailable(e)) => r.status = 500

\* C3 (amended): a failure without a non-empty message gives 500 whatever its
\* status.  With a non-empty message the rules are tried in the order
\* authentication, quota, unavailable, and the first that matches decides: 401; 429
\* with the fixed body "API Quota exceeded. ..."; 502; and 500 when none matches.
C3_Classification ==
    caught # None =>
        LET e == thrown[1]
            r == caught[1]
            m == TruthyText(e.message)
        IN  /\ r.status \in {401, 429, 502, 500}
            /\ r.status = 401 <=> (m /\ SignalAuth(e))
            /\ r.status = 429 <=> (m /\ ~SignalAuth(e) /\ SignalQuota(e))
            /\ r.status = 502 <=>
                   (m /\ ~SignalAuth(e) /\ ~SignalQuota(e) /\ SignalUnavailable(e))
            /\ r.status = 429 =>
                   (r.value = MsgQuotaExceeded /\ MentionsQuota(r.value))

C3_Witness ==
    /\ caught # None
    /\ thrown[1].message = Some(<<"quota:">> \o NeedleApiKey)
    /\ thrown[1].status = Some(503)
    /\ caught[1].status = 401

\* C9 (as stated): a failure that is none of the three classified cases is answered
\* 500 with a fixed generic body that does not contain the failure's message.
C9_NoLeak ==
    caught # None =>
        LET e == thrown[1]
            r == caught[1]
        IN  ~(SignalQuota(e) \/ SignalAuth(e) \/ SignalUnavailable(e)) =>
                /\ r.status = 500
                /\ r.value = MsgInternal
                /\ (MessageText(e) # <<>> => ~Includes(r.value, MessageText(e)))

\* C9 (amended): a failure without a non-empty message is answered 500 with the fixed
\* body "Internal server error.", whatever its status; a failure whose message matches
\* none of the three rules is answered 500 with "Failed to get answer from Gemini: "
\* followed by that message; the 502 body carries the message too, and the 401 and
\* 429 bodies are fixed.
C9_GenericBody ==
    caught # None =>
        LET e == thrown[1]
            r == caught[1]
        IN  /\ r.key = "error"
            /\ ~TruthyText(e.message) => r = Res(500, "error", MsgInternal)
            /\ (TruthyText(e.message) /\ r.status = 500) =>
                   /\ r.value = PrefixGetAnswer \o e.message[1]
                   /\ Includes(r.value, e.message[1])
            /\ r.status = 502 => r.value = PrefixCommunicate \o e.message[1]
            /\ r.status = 401 => r.value = MsgInvalidKey
            /\ r.status = 429 => r.value = MsgQuotaExceeded

C9_Witness ==
    /\ caught # None
    /\ thrown[1] = [message |-> Some(<<"boom">>), status |-> Some(400)]
    /\ caught[1] = Res(500, "error", PrefixGetAnswer \o <<"boom">>)


-----------------------------------------------------------------------------
(* Properties of the reshaping *)

\* C4: the history handed to the upstream has the length and the order of the
\* client's history; the i-th turn carries the i-th client text unchanged; the
\* client's 'user' role stays 'user' and the client's 'bot' role becomes 'model'.
C4_Reshape ==
    startChatArg # None =>
        LET h == chatHistoryIn[1].items
            out == startChatArg[1]
        IN  /\ Len(out) = Len(h)
            /\ \A i \in 1..Len(h) :
                /\ out[i].parts = <<[text |-> h[i].message]>>
                /\ (h[i].role = "user" => out[i].role = "user")
                /\ (h[i].role = "bot" => out[i].role = "model")

C4_Witness ==
    /\ chatHistoryIn = Some(ArrayHistory(<<[role |-> "user", message |-> "hi"],
                                           [role |-> "bot", message |-> "hello"],
                                           [role |-> "bot", message |-> "hi"]>>))
    /\ startChatArg = Some(<<[role |-> "user", parts |-> <<[text |-> "hi"]>>],
                             [role |-> "model", parts |-> <<[text |-> "hello"]>>],
                             [role |-> "model", parts |-> <<[text |-> "hi"]>>]>>)

-----------------------------------------------------------------------------
(* Credential store and token service *)

Names == { "Ana", "Bob" }
Emails == { "a@x.com", "A@X.com", "b@x.com" }
RegisterPasswords == { "secret123" }
LoginPasswords == { "secret123", "letmein" }

Opt(S) == { None } \cup { Some(x) : x \in S }

\* !value for an optional string
Falsy(v) == v = None \/ v[1] = ""

\* the store keeps emails case-normalised
Lower(email) == IF email = "A@X.com" THEN "a@x.com" ELSE email

\* the stored secret is an irreversible hash of the password
Hash(password) == <<"hash", password>>

\* user.matchPassword(password)
MatchPassword(user, password) == user.password = Hash(password)

\* User.findOne({ email }).select('+password')
FindOne(email) ==
    IF \E u \in users : u.email = Lower(email)
    THEN Some(CHOOSE u \in users : u.email = Lower(email))
    ELSE None

\* User.findById(id): the secret is not selected
FindById(id) ==
    IF \E u \in users : u.id = id
    THEN LET u == CHOOSE v \in users : v.id = id
         IN  Some([id |-> u.id, name |-> u.name, email |-> u.email])
    ELSE None

\* the document User.create would persist
NewUser(name, email, password) ==
    [id |-> nextId, name |-> name, email |-> Lower(email), password |-> Hash(password)]

\* jwt.sign({ id }, JWT_SECRET, { expiresIn }) and what jwt.verify accepts
Sign(id) == [sub |-> id, sig |-> "valid"]
Verifies(token, expired) == jwtSecret /\ token.sig = "valid" /\ ~expired

-----------------------------------------------------------------------------
(* Auth responses: res.status(s).json({ success, token, data, error }) *)

AuthRes(status, success, token, data, error) ==
    [status |-> status, success |-> success, token |-> token, data |-> data,
     error |-> error]

Fail(status, error) == AuthRes(status, Some(FALSE), None, None, Some(error))

\* next(err) reaches the global error handler, index.js:103-106
NextErr == AuthRes(500, None, None, None, Some("Internal server error."))

TokenFor_wrongSubject(user) == Sign(user.id + 1)

\* AuthController:19-21 and 63-65
TokenFor(user) == Sign(user.id)

\* AuthController:23-31 and 67-75
Profile(status, user) ==
    AuthRes(status, Some(TRUE), Some(TokenFor(user)),
            Some(Some([id |-> user.id, name |-> user.name, email |-> user.email])), None)

Entry(op, res, presented, persisted) ==
    Some([op |-> op, res |-> res, presented |-> presented, persisted |-> persisted])

-----------------------------------------------------------------------------
(* POST /api/auth/register: validateRegister, then AuthController:7-35 *)

\* validateRegister: all three fields present
ValidRegister(name, email, password) == ~Falsy(name) /\ ~Falsy(email) /\ ~Falsy(password)

Register(name, email, password) ==
    /\ UNCHANGED <<askVars, catchVars, reshapeVars, jwtSecret, meReq, loginFail>>
    /\ IF ~ValidRegister(name, email, password)
       THEN /\ last' = Entry("register", Fail(400, "Validation failed"), None, {})
            /\ UNCHANGED <<users, nextId, tokens, registered>>
       ELSE IF FindOne(email[1]) # None
       THEN \* User.create rejects the duplicate email
            /\ last' = Entry("register", NextErr, None, {})
            /\ UNCHANGED <<users, nextId, tokens, registered>>
       ELSE LET user == NewUser(name[1], email[1], password[1])
            IN  /\ nextId <= MaxUsers
                /\ users' = users \cup {user}
                /\ nextId' = nextId + 1
                /\ IF jwtSecret
                   THEN /\ last' = Entry("register", Profile(201, user), None, {user})
                        /\ tokens' = tokens \cup {TokenFor(user)}
                        /\ registered' = registered \cup
                              {[name |-> name[1], email |-> email[1],
                                res |-> Profile(201, user)]}
                   ELSE \* jwt.sign throws: secretOrPrivateKey must have a value
                        /\ last' = Entry("register", NextErr, None, {user})
                        /\ UNCHANGED <<tokens, registered>>

-----------------------------------------------------------------------------
(* POST /api/auth/login: AuthController:40-79 *)

LoginResponse_enumerating(email, password) ==
    IF Falsy(email) \/ Falsy(password)
    THEN Fail(400, "Please provide email and password")
    ELSE LET user == FindOne(email[1])
         IN  IF user = None THEN Fail(404, "User not found")
             ELSE IF ~MatchPassword(user[1], password[1])
                  THEN Fail(401, "Invalid credentials")
             ELSE IF jwtSecret THEN Profile(200, user[1])
             ELSE NextErr

LoginResponse(email, password) ==
    IF Falsy(email) \/ Falsy(password)
    THEN Fail(400, "Please provide email and password")
    ELSE LET user == FindOne(email[1])
         IN  IF user = None \/ ~MatchPassword(user[1], password[1])
             THEN Fail(401, "Invalid credentials")
             ELSE IF jwtSecret THEN Profile(200, user[1])
             ELSE NextErr

\* why a login with both fields present would be refused, judged on the store
LoginCause(email, password) ==
    IF Falsy(email) \/ Falsy(password) THEN "none"
    ELSE IF \A u \in users : u.email # Lower(email[1]) THEN "unknownEmail"
    ELSE IF \E u \in users : u.email = Lower(email[1]) /\ u.password # Hash(password[1])
         THEN "wrongPassword"
    ELSE "none"

Login(email, password) ==
    LET res == LoginResponse(email, password)
        cause == LoginCause(email, password)
    IN  /\ last' = Entry("login", res, None, {})
        /\ tokens' = IF res.token = None THEN tokens ELSE tokens \cup {res.token[1]}
        /\ loginFail' = IF cause = "none" THEN loginFail
                        ELSE [loginFail EXCEPT ![cause] = Some(res)]
        /\ UNCHANGED <<askVars, catchVars, reshapeVars, jwtSecret, users, nextId, meReq,
                       registered>>

-----------------------------------------------------------------------------
(* GET /api/auth/me: protect, then AuthController:84-94 *)

Presentable ==
    { None } \cup { Some(t) : t \in tokens }
             \cup { Some([sub |-> i, sig |-> "forged"]) : i \in 1..MaxUsers }

\* protect: verify the bearer token, resolve its subject, expose it as req.user
Protect(token, expired) ==
    /\ meReq = None
    /\ UNCHANGED <<askVars, catchVars, reshapeVars, jwtSecret, users, nextId, tokens,
                   loginFail, registered>>
    /\ IF token = None \/ ~Verifies(token[1], expired)
       THEN /\ last' = Entry("me", Fail(401, "Not authorized"), token, {})
            /\ UNCHANGED meReq
       ELSE IF FindById(token[1].sub) = None
       THEN /\ last' = Entry("me", Fail(404, "User not found"), token, {})
            /\ UNCHANGED meReq
       ELSE /\ meReq' = Some([token |-> token[1], user |-> FindById(token[1].sub)[1]])
            /\ UNCHANGED last

\* res.status(200).json({ success: true, data: user })
GetMeResponse(user) == AuthRes(200, Some(TRUE), None, Some(user), None)

GetMe ==
    /\ meReq # None
    /\ last' = Entry("me", GetMeResponse(FindById(meReq[1].user.id)),
                     Some(meReq[1].token), {})
    /\ meReq' = None
    /\ UNCHANGED <<askVars, catchVars, reshapeVars, jwtSecret, users, nextId, tokens,
                   loginFail, registered>>

\* a record leaves the store from outside this program
StoreRemoves(id) ==
    /\ \E u \in users : u.id = id
    /\ users' = { u \in users : u.id # id }
    /\ UNCHANGED <<askVars, catchVars, reshapeVars, jwtSecret, nextId, tokens, meReq,
                   last, loginFail, registered>>

InitAuth ==
    /\ apiKey = TRUE
    /\ ctorThrew = FALSE
    /\ model = Startup(apiKey, ctorThrew)
    /\ reqs = [r \in Slots |-> IdleReq]
    /\ StudiesAtRest
    /\ jwtSecret \in BOOLEAN
    /\ AuthAtRest

NextAuth ==
    \/ \E n \in Opt(Names), e \in Opt(Emails), p \in Opt(RegisterPasswords) :
          Register(n, e, p)
    \/ \E e \in Opt(Emails), p \in Opt(LoginPasswords) : Login(e, p)
    \/ \E t \in Presentable, expired \in BOOLEAN : Protect(t, expired)
    \/ GetMe
    \/ \E i \in 1..MaxUsers : StoreRemoves(i)

SpecAuth == InitAuth /\ [][NextAuth]_vars

-----------------------------------------------------------------------------
(* Properties of the auth routes *)

InvalidCredentials == Fail(401, "Invalid credentials")

\* C5: a login with both fields present gets the same response, 401 "Invalid
\* credentials" and no token, whether the email is unknown to the store or the
\* email is known and the password wrong.
C5_NonEnumeration ==
    /\ \A c \in {"unknownEmail", "wrongPassword"} :
          loginFail[c] # None =>
              /\ loginFail[c][1].status = 401
              /\ loginFail[c][1].error = Some("Invalid credentials")
              /\ loginFail[c][1].token = None
              /\ loginFail[c][1].data = None
    /\ (loginFail.unknownEmail # None /\ loginFail.wrongPassword # None) =>
          loginFail.unknownEmail = loginFail.wrongPassword

C5_Witness ==
    /\ loginFail.unknownEmail = Some(InvalidCredentials)
    /\ loginFail.wrongPassword = Some(InvalidCredentials)
    /\ users # {}

\* no secret, hashed or plain, in a response
NoSecret(res) ==
    /\ res.data # None /\ res.data[1] # None =>
          /\ DOMAIN res.data[1][1] = {"id", "name", "email"}
          /\ res.data[1][1].name \notin RegisterPasswords \cup LoginPasswords
          /\ res.data[1][1].email \notin RegisterPasswords \cup LoginPasswords
    /\ res.token # None => DOMAIN res.token[1] = {"sub", "sig"}
    /\ res.error # None =>
          res.error[1] \notin RegisterPasswords \cup LoginPasswords

\* C6: a successful registration returns a token whose subject is the new user's
\* identifier, with the name and the (case-normalised) email asked for; /me with that
\* token, when it resolves a user, returns that identifier, name and email; and no
\* response of register, login or me carries the secret.
C6_RoundTrip ==
    /\ \A g \in registered :
          LET d == g.res.data[1][1]
          IN  /\ g.res.status = 201
              /\ g.res.token[1].sub = d.id
              /\ d.name = g.name
              /\ d.email = Lower(g.email)
              /\ \A u \in users : u.id = g.res.token[1].sub =>
                    (u.name = g.name /\ u.email = Lower(g.email))
    /\ last # None => NoSecret(last[1].res)
    /\ (last # None /\ last[1].op = "me" /\ last[1].res.status = 200
           /\ last[1].res.data[1] # None) =>
          \A g \in registered :
              g.res.token = last[1].presented =>
                  last[1].res.data[1][1] =
                      [id |-> g.res.token[1].sub, name |-> g.name,
                       email |-> Lower(g.email)]

C6_Witness ==
    /\ last # None
    /\ last[1].op = "me"
    /\ last[1].res.status = 200
    /\ last[1].res.data = Some(Some([id |-> 2, name |-> "Bob", email |-> "a@x.com"]))
    /\ \E g \in registered :
          /\ g.res.token = last[1].presented
          /\ g.email = "A@X.com"
          /\ g.name = "Bob"

\* C7: /me never answers 200 success:true without a resolved User; a verified token
\* whose subject resolves to no User is refused as NotFound.
C7_NotFound ==
    (last # None /\ last[1].op = "me" /\ last[1].res.status = 200) =>
        last[1].res.data[1] # None

\* C8: register either answers 201 with a token and has persisted exactly one new
\* User, or fails and has persisted none.
C8_Atomic ==
    (last # None /\ last[1].op = "register") =>
        \/ /\ last[1].res.status = 201
           /\ last[1].res.token # None
           /\ Cardinality(last[1].persisted) = 1
        \/ /\ last[1].res.status # 201
           /\ last[1].persisted = {}

====
